---- MODULE Spec2Model ----
(***************************************************************************)
(* Bundle submission and inclusion tracking of script/run_attack.py:       *)
(* main, ZKarnage.execute_attack, ZKarnage.check_bundle_status and the     *)
(* FlashbotsManager relay operations they call.                            *)
(*                                                                         *)
(* The chain and the relay are the environment.  The program sees the      *)
(* chain only through its calls, so the chain advances at the calls that   *)
(* read it; every chain call may raise, and every relay response is drawn  *)
(* from the shapes the parsing code distinguishes.  Fees are in gwei.      *)
(***************************************************************************)
EXTENDS Integers, Sequences, FiniteSets, TLC

\* ---------------------------------------------------------------- bounds
MaxHead == 102          \* the chain head stops advancing here
MaxAdvance == 1         \* blocks produced between two chain reads
MaxAttempts == 4        \* attempts started in one run of the model
MaxNonce == 1           \* the account's on-chain transaction count
MaxBlockTxs == 2        \* transactions in the fetched target block
MaxSimResults == 2      \* per-transaction results in a simulation response
MaxBaseFee == 40        \* the latest block's base fee, in gwei

\* ------------------------------------------------------ program constants
Hundred == 100
FastAhead == 2
PollInterval == 5
StatusInterval == 15
BlockTime == 12
BundleLifetime == 420

StartHeads == {98, 99, 100}
BaseFees == {0, 30}
NoValue == -1

Min(a, b) == IF a < b THEN a ELSE b

\* ------------------------------------------------------- pure functions

\* Mutant of get_next_hundred_block: a block on the boundary is its own
\* next boundary.
get_next_hundred_block_RoundsUp(current_block, fresh_head) ==
    LET current == IF current_block = 0 THEN fresh_head ELSE current_block
    IN  current + ((Hundred - (current % Hundred)) % Hundred)

\* get_next_hundred_block: `current_block or self.w3.eth.block_number`
\* falls back to a fresh head reading when the argument is 0 (or None).
get_next_hundred_block(current_block, fresh_head) ==
    LET current == IF current_block = 0 THEN fresh_head ELSE current_block
    IN  current + (Hundred - (current % Hundred))

\* Mutant of TargetFor: the hundred-boundary flag is tested before fast mode.
TargetFor_HundredFirst(cur, fast, target_hundred, fresh_head) ==
    IF target_hundred THEN get_next_hundred_block(cur, fresh_head)
    ELSE IF fast THEN cur + FastAhead
    ELSE cur + 1

\* execute_attack, target selection
TargetFor(cur, fast, target_hundred, fresh_head) ==
    IF fast THEN cur + FastAhead
    ELSE IF target_hundred THEN get_next_hundred_block(cur, fresh_head)
    ELSE cur + 1

\* Mutant of prepare_attack_transaction: the nonce of the first snapshot is
\* reused instead of the one read for this attempt.
prepare_attack_transaction_StaleNonce(base_fee, nonce, high_priority) ==
    [ maxPriorityFeePerGas |-> IF high_priority THEN 5 ELSE 15,
      maxFeePerGas         |-> IF high_priority THEN base_fee + 10 ELSE base_fee + 20,
      nonce                |-> 0,
      gas                  |-> 500000,
      type                 |-> 2 ]

\* Mutant of prepare_attack_transaction: the two fee branches are swapped.
prepare_attack_transaction_SwappedBranches(base_fee, nonce, high_priority) ==
    [ maxPriorityFeePerGas |-> IF high_priority THEN 15 ELSE 5,
      maxFeePerGas         |-> IF high_priority THEN base_fee + 20 ELSE base_fee + 10,
      nonce                |-> nonce,
      gas                  |-> 500000,
      type                 |-> 2 ]

\* Mutant of prepare_attack_transaction: the standard branch raises the
\* priority fee without raising the premium on the base fee.
prepare_attack_transaction_LowPremium(base_fee, nonce, high_priority) ==
    [ maxPriorityFeePerGas |-> IF high_priority THEN 5 ELSE 15,
      maxFeePerGas         |-> base_fee + 10,
      nonce                |-> nonce,
      gas                  |-> 500000,
      type                 |-> 2 ]

\* _prepare_attack_transaction, fee policy and transaction dictionary
prepare_attack_transaction(base_fee, nonce, high_priority) ==
    [ maxPriorityFeePerGas |-> IF high_priority THEN 5 ELSE 15,
      maxFeePerGas         |-> IF high_priority THEN base_fee + 10 ELSE base_fee + 20,
      nonce                |-> nonce,
      gas                  |-> 500000,
      type                 |-> 2 ]

NoTx == [ maxPriorityFeePerGas |-> NoValue, maxFeePerGas |-> NoValue,
          nonce |-> NoValue, gas |-> NoValue, type |-> NoValue ]

\* ---- relay: eth_callBundle -------------------------------------------
\* A per-transaction simulation result: its error field is absent, a text,
\* or a JSON number; its revert field is present or not.
ErrorKinds == {"none", "text", "number"}
SimTxResults == [ error : ErrorKinds, revert : BOOLEAN ]

RECURSIVE SeqsUpTo(_, _)
SeqsUpTo(S, n) ==
    IF n = 0 THEN { <<>> }
    ELSE LET shorter == SeqsUpTo(S, n - 1)
         IN  shorter \cup { Append(s, x) : s \in { t \in shorter : Len(t) = n - 1 }, x \in S }

\* What the relay answers to a simulation request: a status other than 200,
\* a body that does not parse, a JSON object without 'result', or a result
\* with per-transaction results and possibly a bundleHash.
SimResponses ==
    [ kind : {"non_200", "unparsable", "no_result"}, results : { <<>> },
      bundleHash : { FALSE } ]
    \cup [ kind : {"result"}, results : SeqsUpTo(SimTxResults, MaxSimResults),
           bundleHash : BOOLEAN ]

TxResultFails(res) == res.error # "none" \/ res.revert

\* the shape of a simulation reply: the request failed, the JSON object has
\* no 'result' (a JSON-RPC error object), the result lists no transaction
\* results, or it lists some
SimReplyShape(resp) ==
    IF resp.kind \in {"non_200", "unparsable"} THEN "failed_request"
    ELSE IF resp.kind = "no_result" THEN "error_object"
    ELSE IF Len(resp.results) = 0 THEN "no_results"
    ELSE "results"

\* Mutant of simulate_bundle: one clean transaction result is enough.
simulate_bundle_AnyClean(resp) ==
    IF resp.kind \in {"non_200", "unparsable"}
    THEN [ success |-> FALSE, has_raw |-> FALSE, results |-> <<>>, bundleHash |-> FALSE ]
    ELSE LET results == IF resp.kind = "result" THEN resp.results ELSE <<>>
         IN  [ success    |-> \E i \in 1..Len(results) : ~TxResultFails(results[i]),
               has_raw    |-> TRUE,
               results    |-> results,
               bundleHash |-> resp.kind = "result" /\ resp.bundleHash ]

\* simulate_bundle: the dictionary it returns
simulate_bundle(resp) ==
    IF resp.kind \in {"non_200", "unparsable"}
    THEN [ success |-> FALSE, has_raw |-> FALSE, results |-> <<>>, bundleHash |-> FALSE ]
    ELSE LET results == IF resp.kind = "result" THEN resp.results ELSE <<>>
         IN  [ success    |-> \A i \in 1..Len(results) : ~TxResultFails(results[i]),
               has_raw    |-> TRUE,
               results    |-> results,
               bundleHash |-> resp.kind = "result" /\ resp.bundleHash ]

\* execute_attack, the per-transaction error logging: `'revert' in error`
\* raises TypeError when the error field is a number.
SimLoggingRaises(sim_result) ==
    \E i \in 1..Len(sim_result.results) : sim_result.results[i].error = "number"

\* Mutant of SimDecision: a failed simulation never aborts the attempt.
SimDecision_NeverAborts(sim_result) ==
    IF SimLoggingRaises(sim_result) THEN "raise" ELSE "submit"

\* execute_attack, the decision after the simulation:
\* "submit", "abort" (return False) or "raise" (caught, return False).
SimDecision(sim_result) ==
    IF SimLoggingRaises(sim_result) THEN "raise"
    ELSE IF sim_result.success THEN "submit"
    ELSE IF sim_result.bundleHash THEN "submit"
    ELSE "abort"

\* ---- relay: eth_sendBundle -------------------------------------------
\* What the relay answers to a submission: a status other than 200, a body
\* that does not parse, "result": null, a result without bundleHash, one
\* whose bundleHash is empty, or one with a bundle hash.
SubmitResponses == {"non_200", "unparsable", "null_result", "no_bundle_hash",
                    "empty_bundle_hash", "bundle_hash"}

\* result.get('result', {}).get('bundleHash') for a body that parsed
SubmitBundleHash(resp) ==
    CASE resp = "bundle_hash"       -> "hash"
      [] resp = "empty_bundle_hash" -> ""
      [] OTHER                      -> "None"

\* Mutant of submit_bundle: any parsed 200 reply counts as a submission.
submit_bundle_AnyParsedReply(resp) ==
    resp \notin {"non_200", "unparsable", "null_result"}

\* submit_bundle: TRUE for a dictionary holding the bundle hash, FALSE for None
submit_bundle(resp) ==
    IF resp = "non_200" THEN FALSE                          \* return None
    ELSE IF resp \in {"unparsable", "null_result"} THEN FALSE   \* raises; caught, None
    ELSE SubmitBundleHash(resp) \notin {"", "None"}          \* `if bundle_hash:`

\* ---- relay: flashbots_getBundleStatsV2 --------------------------------
\* "error": no 'result' key in what check_flashbots_status returns;
\* "sealed_nopubkey": a sealedByBuildersAt entry without a pubkey.
StatusKinds == {"error", "empty", "considered", "sealed", "sealed_nopubkey"}

\* The callers' logging of the seals: sealed.get('pubkey')[:16]
SealLoggingRaises(status) == status = "sealed_nopubkey"

\* Whether check_flashbots_status sends a request, with which params, and
\* the kind of dictionary it returns.  target_block is NoValue for None; a
\* reply that lacks 'result' or cannot be used gives kind "error".
StatusReplies == StatusKinds \cup {"non_200", "unparsable"}
NoParams == [ bundleHash |-> FALSE, blockNumber |-> NoValue ]

\* Mutant of check_flashbots_status: the request is sent without a block.
check_flashbots_status_NoGuard(bundle_hash, target_block, reply) ==
    [ sent   |-> TRUE,
      params |-> [ bundleHash |-> bundle_hash, blockNumber |-> target_block ],
      result |-> IF reply \in StatusKinds THEN reply ELSE "error" ]

check_flashbots_status(bundle_hash, target_block, reply) ==
    IF target_block = NoValue
    THEN [ sent |-> FALSE, params |-> NoParams, result |-> "error" ]
    ELSE [ sent   |-> TRUE,
           params |-> [ bundleHash |-> bundle_hash, blockNumber |-> target_block ],
           result |-> IF reply \in StatusKinds THEN reply ELSE "error" ]

\* ---- the requests of the four relay operations --------------------------
RelayOps == {"simulate_bundle", "submit_bundle", "check_flashbots_status",
             "check_user_stats"}
RelayMethods == {"eth_callBundle", "eth_sendBundle", "flashbots_getBundleStatsV2",
                 "flashbots_getUserStatsV2"}

\* the "method" of the operation's request
RelayMethod(op) ==
    CASE op = "simulate_bundle"        -> "eth_callBundle"
      [] op = "submit_bundle"          -> "eth_sendBundle"
      [] op = "check_flashbots_status" -> "flashbots_getBundleStatsV2"
      [] op = "check_user_stats"       -> "flashbots_getUserStatsV2"

\* Python's `value or default`; NoValue stands for None
Or(value, default) == IF value = NoValue \/ value = 0 THEN default ELSE value

\* submit_bundle: the validity window in the params of eth_sendBundle
submit_request(min_timestamp, max_timestamp, now) ==
    [ minTimestamp |-> Or(min_timestamp, 0),
      maxTimestamp |-> Or(max_timestamp, now + BundleLifetime) ]

\* json.dumps of the operation's request built at time t: simulate_bundle
\* uses the id 1, the others the time in milliseconds
Serialized(op, t) ==
    [ method |-> RelayMethod(op), id |-> IF op = "simulate_bundle" THEN 1 ELSE t ]

\* Mutant of relay_request: the request is serialized again for the POST.
relay_request_SerializedTwice(op, t_build, t_send) ==
    [ signature |-> [ address |-> "account", over |-> Serialized(op, t_build) ],
      data      |-> Serialized(op, t_send) ]

\* what an operation sends: request_json is built once, signed by
\* _sign_flashbots_message as address:signature, and POSTed as data
relay_request(op, t_build, t_send) ==
    LET request_json == Serialized(op, t_build)
    IN  [ signature |-> [ address |-> "account", over |-> request_json ],
          data      |-> request_json ]

\* ---- the four relay operations' error handling -------------------------
\* what can go wrong: the request cannot be built or sent, the status is not
\* 200, the body does not parse, the parsed body breaks the processing
RelayFailures == {"transport_failure", "non_200", "unparsable", "internal_exception"}

Returns(value) == [ raised |-> FALSE, value |-> value ]
Raises == [ raised |-> TRUE, value |-> "exception" ]

\* what each operation hands back when it fails
ErrorResult(op) == IF op = "submit_bundle" THEN "None" ELSE "success_false_with_error"

\* the try block: a status other than 200 returns the error result, every
\* other failure is an exception raised inside the block
relay_try(op, failure) ==
    IF failure = "non_200" THEN Returns(ErrorResult(op)) ELSE Raises

\* Mutant of Except: the exception is not caught.
Except_Propagates(outcome, on_error) == outcome

\* `except Exception as e:` around the whole body, returning the error result
Except(outcome, on_error) ==
    IF outcome.raised THEN Returns(on_error) ELSE outcome

relay_operation(op, failure) == Except(relay_try(op, failure), ErrorResult(op))

\* ---- relay: flashbots_getUserStatsV2 ----------------------------------
UserStatsKinds == {"error", "standard", "high", "missing_flag"}

\* Mutant of IsHighPriority: the flag defaults to true when the query gave
\* no result.
IsHighPriority_DefaultsTrue(user_stats) == user_stats \in {"high", "error"}

\* `'result' in user_stats` and result.get('isHighPriority', False)
IsHighPriority(user_stats) == user_stats = "high"

\* ---- check_transaction_status ----------------------------------------
TxStatusKinds == {"INCLUDED", "FAILED", "PENDING", "NOT_FOUND", "ERROR"}

\* ---- the target block ------------------------------------------------
\* A transaction of the fetched block: whether its hash is the attack
\* transaction's, whether its receipt names our account as sender, the
\* receipt status, and whether fetching the receipt works.
BlockTxs ==
    { t \in [ is_attack : BOOLEAN, from_us : BOOLEAN, status : {0, 1}, receipt_ok : BOOLEAN ] :
        /\ t.is_attack => (t.from_us /\ t.receipt_ok)
        /\ ~t.receipt_ok => (~t.from_us /\ t.status = 0) }

Blocks == SeqsUpTo(BlockTxs, MaxBlockTxs)

NoMatch == [ found |-> FALSE, by |-> "none", included |-> FALSE, status |-> NoValue,
             receipt_seen |-> FALSE ]

\* Mutant of ScanFrom: a transaction of our account counts as the inclusion
\* whatever its receipt status.
RECURSIVE ScanFrom_AnySenderTx(_, _, _)
ScanFrom_AnySenderTx(blk, i, has_tx_hash) ==
    IF i > Len(blk) THEN NoMatch
    ELSE LET tx == blk[i] IN
         IF has_tx_hash /\ tx.is_attack
         THEN [ found |-> TRUE, by |-> "hash", included |-> TRUE, status |-> tx.status,
                receipt_seen |-> FALSE ]
         ELSE IF tx.receipt_ok /\ tx.from_us
         THEN [ found |-> TRUE, by |-> "sender", included |-> TRUE,
                status |-> tx.status, receipt_seen |-> TRUE ]
         ELSE ScanFrom_AnySenderTx(blk, i + 1, has_tx_hash)

\* check_bundle_status, the scan of block.transactions
RECURSIVE ScanFrom(_, _, _)
ScanFrom(blk, i, has_tx_hash) ==
    IF i > Len(blk) THEN NoMatch
    ELSE LET tx == blk[i] IN
         IF has_tx_hash /\ tx.is_attack
         THEN [ found |-> TRUE, by |-> "hash", included |-> TRUE, status |-> tx.status,
                receipt_seen |-> FALSE ]
         ELSE IF tx.receipt_ok /\ tx.from_us
         THEN [ found |-> TRUE, by |-> "sender", included |-> (tx.status = 1),
                status |-> tx.status, receipt_seen |-> TRUE ]
         ELSE ScanFrom(blk, i + 1, has_tx_hash)

ScanBlock(blk, has_tx_hash) == ScanFrom(blk, 1, has_tx_hash)

\* ------------------------------------------------------------- state
VARIABLES
    pc,               \* position in main / execute_attack / check_bundle_status
    fast_mode,        \* "--fast" in sys.argv
    setup,            \* outcome of main's environment and connection checks
    head,             \* the chain head (environment)
    chain_nonce,      \* the account's on-chain transaction count (environment)
    attempt_number,   \* main: attempt_number
    blocks_to_wait,   \* main: blocks_to_wait
    estimated_wait,   \* main: estimated_wait while it sleeps, in seconds
    exit_code,        \* what main returns (1 as well for an uncaught exception)
    current_block,    \* execute_attack: current_block
    target_block,     \* execute_attack: target_block
    is_high_priority, \* execute_attack: is_high_priority
    base_fee,         \* _prepare_attack_transaction: base_fee
    tx,               \* the signed attack transaction of the attempt
    sim,              \* execute_attack: sim_result (success, bundleHash)
    bundle_hash,      \* execute_attack: whether bundle_submission holds a hash
    attempt_error,    \* execute_attack: the kind of exception it caught, if any
    steps,            \* the protocol steps of the attempt, in the order taken
    calls,            \* per attempt: the chain and relay calls made so far
    call_parity,      \* flips at every chain or relay call made since the
                      \* previous attempt ended
    tracker,          \* check_bundle_status: the phase it is in
    cb_current_block, \* check_bundle_status: current_block
    since_status,     \* check_bundle_status: time.time() - last_status_check,
                      \* inside the waiting loop (it is not read after it)
    waited,           \* check_bundle_status: the waiting loop was entered
    wait_event,       \* what went wrong while waiting, if anything
    match,            \* check_bundle_status: what the block scan found
    resolved_by,      \* check_bundle_status: the return statement taken
    result,           \* what execute_attack returns
    prev,             \* target and outcome of the previous attempt, kept
                      \* until the next attempt has built its transaction
    last_reply,       \* the reply to the latest of the attempt's user-stats,
                      \* simulate, submit, transaction lookup and final
                      \* status calls
    used,             \* per attempt: the (transaction, target block) pairs
                      \* passed to the relay, the chain and the tracker
    landed,           \* the chain holds the attempt's transaction in its
                      \* target block (environment)
    fn,               \* a function applied on its own: which one,
    fn_arg,           \* the arguments it is applied to,
    fn_ret,           \* and what it returned
    gb_pc,            \* generate_block.py: position in main
    anvil,            \* generate_block.py: the Anvil process
    polls,            \* get_block_data: receipt polls made so far
    leaving,          \* generate_block.py: how main's try block is left
    gb_exit           \* generate_block.py: the exit status of the program

vars == << pc, fast_mode, setup, head, chain_nonce, attempt_number, blocks_to_wait,
           estimated_wait, exit_code, current_block, target_block, is_high_priority,
           base_fee, tx, sim, bundle_hash, attempt_error, steps, calls, call_parity,
           tracker,
           cb_current_block, since_status, waited, wait_event,
           match, resolved_by, result, prev, last_reply, used, landed,
           fn, fn_arg, fn_ret, gb_pc, anvil, polls, leaving, gb_exit >>

mainVars    == << fast_mode, setup, attempt_number, blocks_to_wait, estimated_wait,
                  exit_code >>
attackVars  == << current_block, target_block, is_high_priority, base_fee, tx, sim,
                  bundle_hash, attempt_error >>
trackerVars == << tracker, cb_current_block, since_status, waited,
                  wait_event, match, resolved_by, landed >>
pureVars    == << fn, fn_arg, fn_ret >>
genVars     == << gb_pc, anvil, polls, leaving, gb_exit >>

\* the chain and relay calls that are recorded, by call site
CallKinds == {"user_stats", "simulate", "submit", "info_tx_status", "info_bundle_status",
              "wait_bundle_status", "get_block", "tx_lookup", "final_bundle_status"}
NoCalls == {}
\* the relay operation behind a recorded call; the transaction lookups and
\* get_block go to the chain node
RelayCallKinds == CallKinds \ {"info_tx_status", "tx_lookup", "get_block"}
CallOp(k) ==
    CASE k = "user_stats" -> "check_user_stats"
      [] k = "simulate"   -> "simulate_bundle"
      [] k = "submit"     -> "submit_bundle"
      [] k \in {"info_bundle_status", "wait_bundle_status", "final_bundle_status"}
                          -> "check_flashbots_status"
NoSim == [ done |-> FALSE, success |-> FALSE, bundleHash |-> FALSE ]
NoPrev == [ target |-> NoValue, outcome |-> "none" ]
NoReply == [ from |-> "none", what |-> "none" ]
NoRet == [ done |-> FALSE ]
SinceCap == StatusInterval + 1   \* any elapsed time above the interval

\* a call of kind k has been made
Called(k) == calls \cup {k}
Flip(b) == 1 - b

\* what an attempt's calls are given: the signed transaction (its raw bytes
\* or its hash) and the target block
AttemptArgs(signed_tx, target) == [ tx |-> signed_tx, target_block |-> target ]

\* Mutant of SubmitArgs: the bundle submitted holds a transaction built and
\* signed again after the simulation.
SubmitArgs_Rebuilt(signed_tx, target) ==
    AttemptArgs([ signed_tx EXCEPT !.nonce = @ + 1 ], target)

\* submit_bundle([signed_tx.rawTransaction], target_block)
SubmitArgs(signed_tx, target) == AttemptArgs(signed_tx, target)

\* the chain head a read returns after `adv` more blocks
HeadAfter(adv) == Min(head + adv, MaxHead)

FreshAttempt ==
    /\ current_block = NoValue /\ target_block = NoValue /\ is_high_priority = FALSE
    /\ base_fee = NoValue /\ tx = NoTx /\ sim = NoSim /\ bundle_hash = FALSE
    /\ attempt_error = "none"
    /\ steps = <<>> /\ calls = NoCalls
    /\ tracker = "IDLE" /\ cb_current_block = NoValue
    /\ since_status = SinceCap /\ waited = FALSE /\ wait_event = "none"
    /\ match = NoMatch /\ resolved_by = "none" /\ result = "none"
    /\ last_reply = NoReply /\ used = {} /\ landed = FALSE

\* the locals of execute_attack and check_bundle_status are gone
ResetAttempt ==
    /\ current_block' = NoValue /\ target_block' = NoValue /\ is_high_priority' = FALSE
    /\ base_fee' = NoValue /\ tx' = NoTx /\ sim' = NoSim /\ bundle_hash' = FALSE
    /\ attempt_error' = "none"
    /\ steps' = <<>> /\ calls' = NoCalls
    /\ tracker' = "IDLE" /\ cb_current_block' = NoValue
    /\ since_status' = SinceCap /\ waited' = FALSE /\ wait_event' = "none"
    /\ match' = NoMatch /\ resolved_by' = "none" /\ result' = "none"
    /\ last_reply' = NoReply /\ used' = {} /\ landed' = FALSE

Init ==
    /\ pc = "main"
    /\ fast_mode \in BOOLEAN
    /\ setup \in {"ok", "missing_env", "not_connected"}
    /\ head \in StartHeads
    /\ chain_nonce = 0
    /\ attempt_number = 1
    /\ blocks_to_wait = NoValue
    /\ estimated_wait = NoValue
    /\ exit_code = NoValue
    /\ call_parity = 0
    /\ prev = NoPrev
    /\ FreshAttempt
    /\ fn = "none" /\ fn_arg = NoValue /\ fn_ret = NoRet
    /\ gb_pc = "idle" /\ anvil = "not_started" /\ polls = 0
    /\ leaving = "none" /\ gb_exit = NoValue

\* ------------------------------------------------------------ actions

\* A raise inside execute_attack: caught at its `except`, returns False.
AttackRaises ==
    /\ result' = "not_included"
    /\ pc' = "ea_return"

\* Mutant of AfterStep: the bundle is submitted without being simulated.
AfterStep_SkipsSimulation(step) ==
    CASE step = "target"   -> "ea_stats"
      [] step = "stats"    -> "ea_build"
      [] step = "build"    -> "ea_submit"
      [] step = "simulate" -> "ea_submit"
      [] step = "info"     -> "cb_start"

\* execute_attack: the statement that follows a completed step
AfterStep(step) ==
    CASE step = "target"   -> "ea_stats"
      [] step = "stats"    -> "ea_build"
      [] step = "build"    -> "ea_simulate"
      [] step = "simulate" -> "ea_submit"
      [] step = "info"     -> "cb_start"

\* main: environment checks, connection check, choice of mode
MainSetup ==
    /\ pc = "main"
    /\ IF setup # "ok"
       THEN /\ pc' = "done"
            /\ exit_code' = 1
       ELSE /\ pc' = IF fast_mode THEN "ea_start" ELSE "loop_head"
            /\ exit_code' = exit_code
    /\ UNCHANGED << fast_mode, setup, head, chain_nonce, attempt_number, blocks_to_wait,
                    estimated_wait, prev, steps, calls, call_parity, result,
                    last_reply, used >>
    /\ UNCHANGED pureVars
    /\ UNCHANGED genVars
    /\ UNCHANGED attackVars
    /\ UNCHANGED trackerVars

\* main, the head of `while True`: read the head, estimate the distance
MainLoopHead ==
    /\ pc = "loop_head"
    /\ estimated_wait' = NoValue
    /\ \E adv \in 0..MaxAdvance, ok \in BOOLEAN :
        /\ head' = HeadAfter(adv)
        /\ call_parity' = Flip(call_parity)
        /\ IF ok
           THEN /\ blocks_to_wait' = get_next_hundred_block(head', head') - head'
                /\ pc' = "ea_start"
                /\ exit_code' = exit_code
           ELSE /\ blocks_to_wait' = blocks_to_wait
                /\ pc' = "crashed"
                /\ exit_code' = 1
    /\ UNCHANGED << fast_mode, setup, chain_nonce, attempt_number, prev,
                    steps, calls, result, last_reply, used >>
    /\ UNCHANGED pureVars
    /\ UNCHANGED genVars
    /\ UNCHANGED attackVars
    /\ UNCHANGED trackerVars

\* execute_attack: read the head and determine the target block
ChooseTarget ==
    /\ pc = "ea_start"
    /\ \E adv \in 0..MaxAdvance, ok \in BOOLEAN :
        /\ head' = HeadAfter(adv)
        /\ call_parity' = Flip(call_parity)
        /\ IF ok
           THEN /\ current_block' = head'
                /\ target_block' = TargetFor(head', fast_mode, TRUE, head')
                /\ steps' = Append(steps, "target")
                /\ pc' = AfterStep("target")
                /\ result' = result
           ELSE /\ AttackRaises
                /\ UNCHANGED << current_block, target_block, steps >>
    /\ UNCHANGED mainVars
    /\ prev' = prev
    /\ last_reply' = last_reply
    /\ UNCHANGED pureVars
    /\ UNCHANGED genVars
    /\ UNCHANGED << chain_nonce, is_high_priority, base_fee, tx, sim, bundle_hash,
                    attempt_error, calls, used >>
    /\ UNCHANGED trackerVars

\* execute_attack: fetch the user stats and derive the priority flag
CheckUserStats ==
    /\ pc = "ea_stats"
    /\ \E user_stats \in UserStatsKinds :
        /\ is_high_priority' = IsHighPriority(user_stats)
        /\ last_reply' = [ from |-> "user_stats", what |-> user_stats ]
    /\ steps' = Append(steps, "stats")
    /\ calls' = Called("user_stats")
    /\ call_parity' = Flip(call_parity)
    /\ pc' = AfterStep("stats")
    /\ UNCHANGED mainVars
    /\ prev' = prev
    /\ UNCHANGED pureVars
    /\ UNCHANGED genVars
    /\ UNCHANGED << head, chain_nonce, current_block, target_block, base_fee, tx, sim,
                    bundle_hash, attempt_error, result, used >>
    /\ UNCHANGED trackerVars

\* how building and signing ends: a transaction, an exception of a chain
\* read in _prepare_attack_transaction, or one of sign_transaction
BuildOutcomes == {"ok", "chain_error", "signing_error"}

\* execute_attack: _prepare_attack_transaction and sign_transaction
BuildAndSign ==
    /\ pc = "ea_build"
    /\ \E adv \in 0..MaxAdvance, fee \in BaseFees, bump \in 0..1, how \in BuildOutcomes :
        /\ head' = HeadAfter(adv)
        /\ chain_nonce' = Min(chain_nonce + bump, MaxNonce)
        /\ call_parity' = Flip(call_parity)
        /\ IF how = "ok"
           THEN /\ base_fee' = fee
                /\ tx' = prepare_attack_transaction(fee, chain_nonce', is_high_priority)
                /\ steps' = Append(steps, "build")
                /\ pc' = AfterStep("build")
                /\ UNCHANGED << result, attempt_error >>
           ELSE /\ AttackRaises
                /\ attempt_error' = how
                /\ UNCHANGED << base_fee, tx, steps >>
    /\ UNCHANGED mainVars
    /\ prev' = prev
    /\ last_reply' = last_reply
    /\ UNCHANGED pureVars
    /\ UNCHANGED genVars
    /\ UNCHANGED << current_block, target_block, is_high_priority, sim, bundle_hash,
                    calls, used >>
    /\ UNCHANGED trackerVars

\* execute_attack: simulate the bundle and decide whether to go on
Simulate ==
    /\ pc = "ea_simulate"
    /\ \E resp \in SimResponses :
        LET sim_result == simulate_bundle(resp)
            decision   == SimDecision(sim_result)
        IN  /\ sim' = [ done |-> TRUE, success |-> sim_result.success,
                        bundleHash |-> sim_result.bundleHash ]
            /\ last_reply' = [ from |-> "simulate", what |-> SimReplyShape(resp) ]
            /\ IF decision = "submit"
               THEN pc' = AfterStep("simulate") /\ result' = result
               ELSE AttackRaises
    /\ steps' = Append(steps, "simulate")
    /\ calls' = Called("simulate")
    /\ used' = used \cup {AttemptArgs(tx, target_block)}
    /\ call_parity' = Flip(call_parity)
    /\ UNCHANGED mainVars
    /\ prev' = NoPrev
    /\ UNCHANGED pureVars
    /\ UNCHANGED genVars
    /\ UNCHANGED << head, chain_nonce, current_block, target_block, is_high_priority,
                    base_fee, tx, bundle_hash, attempt_error >>
    /\ UNCHANGED trackerVars

\* Mutant of AfterSubmit: a missing bundle hash is not checked.
AfterSubmit_IgnoresFailure(submission) == "ea_info"

\* execute_attack: where to go with what submit_bundle returned
AfterSubmit(submission) == IF submission THEN "ea_info" ELSE "ea_return"

\* execute_attack: submit the bundle
Submit ==
    /\ pc = "ea_submit"
    /\ \E resp \in SubmitResponses :
        LET bundle_submission == submit_bundle(resp)
        IN  /\ bundle_hash' = bundle_submission
            /\ pc' = AfterSubmit(bundle_submission)
            /\ result' = IF pc' = "ea_return" THEN "not_included" ELSE result
            /\ last_reply' = [ from |-> "submit",
                               what |-> IF bundle_submission THEN "bundle_hash" ELSE "None" ]
    /\ steps' = Append(steps, "submit")
    /\ calls' = Called("submit")
    /\ used' = used \cup {SubmitArgs(tx, target_block)}
    /\ call_parity' = Flip(call_parity)
    /\ UNCHANGED mainVars
    /\ prev' = prev
    /\ UNCHANGED pureVars
    /\ UNCHANGED genVars
    /\ UNCHANGED << head, chain_nonce, current_block, target_block, is_high_priority,
                    base_fee, tx, sim, attempt_error >>
    /\ UNCHANGED trackerVars

\* execute_attack: the informational transaction-status and bundle-status
\* queries made right after the submission
InfoQueries ==
    /\ pc = "ea_info"
    /\ \E tx_status \in TxStatusKinds, status \in StatusKinds :
        IF SealLoggingRaises(status)
        THEN AttackRaises
        ELSE pc' = AfterStep("info") /\ result' = result
    /\ calls' = calls \cup {"info_tx_status", "info_bundle_status"}
    /\ used' = used \cup {AttemptArgs(tx, target_block)}
    /\ call_parity' = Flip(call_parity)
    /\ UNCHANGED mainVars
    /\ prev' = prev
    /\ last_reply' = last_reply
    /\ UNCHANGED pureVars
    /\ UNCHANGED genVars
    /\ UNCHANGED attackVars
    /\ UNCHANGED << head, chain_nonce, steps >>
    /\ UNCHANGED trackerVars

\* ---- check_bundle_status ----------------------------------------------

\* What check_bundle_status returns with, and the phase it ends in.
Resolve(by, included) ==
    /\ tracker' = "RESOLVED"
    /\ resolved_by' = by
    /\ result' = IF included THEN "included" ELSE "not_included"
    /\ pc' = "ea_return"

\* A raise inside check_bundle_status: caught at its `except`, returns False.
TrackerRaises == Resolve("exception", FALSE)

\* Mutant of NeedsWait: the wait ends one block early.
NeedsWait_OffByOne(current, target) == current + 1 < target

\* Mutant of NeedsWait: the waiting loop has no exit.
NeedsWait_Always(current, target) == TRUE

\* `current_block < target_block`: the target block is still ahead
NeedsWait(current, target) == current < target

\* the first head reading, and whether there is anything to wait for
TrackStart ==
    /\ pc = "cb_start"
    /\ steps' = Append(steps, "track")
    /\ used' = used \cup {AttemptArgs(tx, target_block)}
    /\ \E adv \in 0..MaxAdvance, ok \in BOOLEAN :
        /\ head' = HeadAfter(adv)
        /\ call_parity' = Flip(call_parity)
        /\ IF ok
           THEN /\ cb_current_block' = head'
                /\ IF NeedsWait(head', target_block)
                   THEN /\ tracker' = "WAITING_FOR_BLOCK"
                        /\ waited' = TRUE
                        /\ pc' = "cb_wait"
                   ELSE /\ tracker' = "BLOCK_REACHED"
                        /\ waited' = FALSE
                        /\ pc' = "cb_fetch"
                /\ UNCHANGED << resolved_by, result >>
           ELSE /\ TrackerRaises
                /\ UNCHANGED << cb_current_block, waited >>
    /\ since_status' = SinceCap
    /\ UNCHANGED mainVars
    /\ prev' = prev
    /\ last_reply' = last_reply
    /\ UNCHANGED pureVars
    /\ UNCHANGED genVars
    /\ UNCHANGED attackVars
    /\ UNCHANGED << chain_nonce, calls, wait_event, match, landed >>

\* Mutant of StatusCheckDue: the relay is queried on every head poll.
StatusCheckDue_EveryPoll(since) == TRUE

\* whether the waiting loop queries the relay in this iteration
StatusCheckDue(since) == since > StatusInterval

\* the waiting loop, first half: the relay status check when it is due
WaitStatusCheck ==
    /\ pc = "cb_wait"
    /\ NeedsWait(cb_current_block, target_block)
    /\ IF StatusCheckDue(since_status)
       THEN /\ calls' = Called("wait_bundle_status")
            /\ used' = used \cup {AttemptArgs(tx, target_block)}
            /\ call_parity' = Flip(call_parity)
            /\ \E status \in StatusKinds :
                IF SealLoggingRaises(status)
                THEN /\ TrackerRaises
                     /\ wait_event' = "relay_malformed"
                     /\ since_status' = SinceCap
                ELSE /\ wait_event' = IF status = "error" /\ wait_event = "none"
                                      THEN "relay_error" ELSE wait_event
                     /\ since_status' = 0
                     /\ pc' = "cb_sleep"
                     /\ UNCHANGED << tracker, resolved_by, result >>
       ELSE /\ pc' = "cb_sleep"
            /\ UNCHANGED << calls, used, call_parity, tracker, resolved_by, result,
                            wait_event, since_status >>
    /\ UNCHANGED mainVars
    /\ prev' = prev
    /\ last_reply' = last_reply
    /\ UNCHANGED pureVars
    /\ UNCHANGED genVars
    /\ UNCHANGED attackVars
    /\ UNCHANGED << head, chain_nonce, steps, cb_current_block, waited,
                    match, landed >>

\* the waiting loop, second half: sleep, then read the head again
WaitSleep ==
    /\ pc = "cb_sleep"
    /\ \E jitter \in 0..1, adv \in 0..MaxAdvance, ok \in BOOLEAN :
        /\ since_status' = IF ok /\ NeedsWait(HeadAfter(adv), target_block)
                           THEN Min(since_status + PollInterval + jitter, SinceCap)
                           ELSE SinceCap
        /\ head' = HeadAfter(adv)
        /\ call_parity' = Flip(call_parity)
        /\ IF ok
           THEN /\ cb_current_block' = head'
                /\ IF NeedsWait(head', target_block)
                   THEN pc' = "cb_wait" /\ tracker' = tracker
                   ELSE pc' = "cb_fetch" /\ tracker' = "BLOCK_REACHED"
                /\ UNCHANGED << resolved_by, result, wait_event >>
           ELSE /\ TrackerRaises
                /\ wait_event' = "chain_error"
                /\ cb_current_block' = cb_current_block
    /\ UNCHANGED mainVars
    /\ prev' = prev
    /\ last_reply' = last_reply
    /\ UNCHANGED pureVars
    /\ UNCHANGED genVars
    /\ UNCHANGED attackVars
    /\ UNCHANGED << chain_nonce, steps, calls, used, waited, match, landed >>

\* fetch the target block with its transactions; what the block holds is
\* seen only by the scan, so it is drawn there
FetchBlock ==
    /\ pc = "cb_fetch"
    /\ calls' = Called("get_block")
    /\ used' = used \cup {AttemptArgs(tx, target_block)}
    /\ call_parity' = Flip(call_parity)
    /\ \E ok \in BOOLEAN, in_block \in BOOLEAN :
        IF ok
        THEN /\ tracker' = "CHECKING_BLOCK_CONTENTS"
             /\ pc' = "cb_scan"
             /\ landed' = landed
             /\ UNCHANGED << resolved_by, result >>
        ELSE \* the block is on the chain, whatever became of the call
             /\ TrackerRaises
             /\ landed' = in_block
    /\ UNCHANGED mainVars
    /\ prev' = prev
    /\ last_reply' = last_reply
    /\ UNCHANGED pureVars
    /\ UNCHANGED genVars
    /\ UNCHANGED attackVars
    /\ UNCHANGED << head, chain_nonce, steps, cb_current_block,
                    since_status, waited, wait_event, match >>

\* Mutant of AfterScan: the scan does not return on a match.
AfterScan_FallsThrough(found) == "cb_txstatus"

\* where the scan leaves: a match returns, no match goes on to the lookup
AfterScan(found) == IF found.found THEN "ea_return" ELSE "cb_txstatus"

\* scan the block's transactions for ours
ScanTargetBlock ==
    /\ pc = "cb_scan"
    /\ \E block \in Blocks :
       LET found == ScanBlock(block, TRUE)
       IN  /\ match' = found
           /\ landed' = \E i \in 1..Len(block) : block[i].is_attack
           /\ pc' = AfterScan(found)
           /\ IF found.found
              THEN /\ tracker' = "RESOLVED"
                   /\ resolved_by' = "scan"
                   /\ result' = IF found.included THEN "included" ELSE "not_included"
              ELSE /\ tracker' = "CHECKING_STATUS_API"
                   /\ UNCHANGED << resolved_by, result >>
           /\ call_parity' = IF block = <<>> \/ found.by = "hash" THEN call_parity
                             ELSE Flip(call_parity)
    /\ UNCHANGED mainVars
    /\ prev' = prev
    /\ last_reply' = last_reply
    /\ UNCHANGED pureVars
    /\ UNCHANGED genVars
    /\ UNCHANGED attackVars
    /\ UNCHANGED << head, chain_nonce, steps, calls, used, cb_current_block,
                    since_status, waited, wait_event >>

\* Mutant of LookupConfirms: any mined receipt counts as inclusion.
LookupConfirms_AnyMined(status) == status \in {"INCLUDED", "FAILED"}

\* `if status == "INCLUDED"`: the lookup confirms the inclusion
LookupConfirms(status) == status = "INCLUDED"

\* the transaction-status lookup keyed by the transaction hash
TxStatusFallback ==
    /\ pc = "cb_txstatus"
    /\ calls' = Called("tx_lookup")
    /\ used' = used \cup {AttemptArgs(tx, target_block)}
    /\ call_parity' = Flip(call_parity)
    /\ \E status \in TxStatusKinds :
        /\ last_reply' = [ from |-> "tx_lookup", what |-> status ]
        /\ IF LookupConfirms(status)
           THEN Resolve("tx_status", TRUE)
           ELSE /\ pc' = "cb_final"
                /\ UNCHANGED << tracker, resolved_by, result >>
    /\ UNCHANGED mainVars
    /\ prev' = prev
    /\ UNCHANGED pureVars
    /\ UNCHANGED genVars
    /\ UNCHANGED attackVars
    /\ UNCHANGED << head, chain_nonce, steps, cb_current_block,
                    since_status, waited, wait_event, match, landed >>

\* the branch of the final check's logging: seals reported although the
\* bundle is not in the block, no seals, or no 'result' in the reply
FinalLog(status) ==
    IF status = "error" THEN "no_result"
    ELSE IF status \in {"sealed", "sealed_nopubkey"} THEN "sealed_not_in_block"
    ELSE "not_sealed"

\* Mutant of FinalVerdict: a bundle the builders sealed counts as included.
FinalVerdict_TrustsSeals(status) == status \in {"sealed", "sealed_nopubkey"}

\* `return False` after the final check, whatever it logged
FinalVerdict(status) == FALSE

\* the final relay status check; the bundle was not found in the block
FinalStatusCheck ==
    /\ pc = "cb_final"
    /\ calls' = Called("final_bundle_status")
    /\ used' = used \cup {AttemptArgs(tx, target_block)}
    /\ call_parity' = Flip(call_parity)
    /\ \E status \in StatusKinds :
        /\ last_reply' = [ from |-> "final_status", what |-> FinalLog(status) ]
        /\ Resolve("final", FinalVerdict(status))
    /\ UNCHANGED mainVars
    /\ prev' = prev
    /\ UNCHANGED pureVars
    /\ UNCHANGED genVars
    /\ UNCHANGED attackVars
    /\ UNCHANGED << head, chain_nonce, steps, cb_current_block,
                    since_status, waited, wait_event, match, landed >>

\* ---- back in main -----------------------------------------------------

\* how the finished attempt is remembered
Outcome ==
    IF result = "included" THEN "included"
    ELSE IF tracker = "RESOLVED" /\ resolved_by # "exception" THEN "not_included"
    ELSE "error"

\* Mutant of FastModeReturn: the outcome of the attempt is not looked at.
FastModeReturn_AlwaysZero ==
    /\ pc = "ea_return"
    /\ fast_mode
    /\ exit_code' = 0
    /\ pc' = "done"
    /\ UNCHANGED << fast_mode, setup, head, chain_nonce, attempt_number, blocks_to_wait,
                    estimated_wait, prev, steps, calls, call_parity, result,
                    last_reply, used >>
    /\ UNCHANGED pureVars
    /\ UNCHANGED genVars
    /\ UNCHANGED attackVars
    /\ UNCHANGED trackerVars

\* fast mode: one attempt, then `return 0 if success else 1`
FastModeReturn ==
    /\ pc = "ea_return"
    /\ fast_mode
    /\ exit_code' = IF result = "included" THEN 0 ELSE 1
    /\ pc' = "done"
    /\ UNCHANGED << fast_mode, setup, head, chain_nonce, attempt_number, blocks_to_wait,
                    estimated_wait, prev, steps, calls, call_parity, result,
                    last_reply, used >>
    /\ UNCHANGED pureVars
    /\ UNCHANGED genVars
    /\ UNCHANGED attackVars
    /\ UNCHANGED trackerVars

\* continuous mode: `return 0` after a successful attempt
LoopSuccess ==
    /\ pc = "ea_return"
    /\ ~fast_mode
    /\ result = "included"
    /\ exit_code' = 0
    /\ pc' = "done"
    /\ UNCHANGED << fast_mode, setup, head, chain_nonce, attempt_number, blocks_to_wait,
                    estimated_wait, prev, steps, calls, call_parity, result,
                    last_reply, used >>
    /\ UNCHANGED pureVars
    /\ UNCHANGED genVars
    /\ UNCHANGED attackVars
    /\ UNCHANGED trackerVars

\* Mutant of LoopRetry: the loop gives up after the third failed attempt.
LoopRetry_GivesUpAfterThree ==
    /\ pc = "ea_return"
    /\ ~fast_mode
    /\ result # "included"
    /\ IF attempt_number >= 3
       THEN /\ exit_code' = 1
            /\ pc' = "done"
            /\ UNCHANGED << fast_mode, setup, head, chain_nonce, attempt_number,
                            blocks_to_wait, estimated_wait, prev, steps, calls,
                            call_parity, result, last_reply, used >>
            /\ UNCHANGED attackVars
            /\ UNCHANGED trackerVars
       ELSE /\ attempt_number' = attempt_number + 1
            /\ estimated_wait' = (blocks_to_wait * BlockTime) \div 2
            /\ prev' = [ target |-> target_block, outcome |-> Outcome ]
            /\ pc' = "loop_head"
            /\ ResetAttempt
            /\ call_parity' = 0
            /\ UNCHANGED << fast_mode, setup, head, chain_nonce, blocks_to_wait,
                            exit_code >>
    /\ UNCHANGED pureVars
    /\ UNCHANGED genVars

\* Mutant of LoopRetry: the next attempt does not wait for the tracking of
\* the previous one to return.
LoopRetry_DoesNotAwait ==
    /\ pc \in {"ea_return", "cb_wait"}
    /\ ~fast_mode
    /\ result # "included"
    /\ attempt_number < MaxAttempts
    /\ attempt_number' = attempt_number + 1
    /\ estimated_wait' = (blocks_to_wait * BlockTime) \div 2
    /\ prev' = [ target |-> target_block, outcome |-> Outcome ]
    /\ pc' = "loop_head"
    /\ ResetAttempt
    /\ call_parity' = 0
    /\ UNCHANGED << fast_mode, setup, head, chain_nonce, blocks_to_wait, exit_code >>
    /\ UNCHANGED pureVars
    /\ UNCHANGED genVars

\* Mutant of LoopRetry: the finished attempt's bundle is cancelled at the
\* relay before the next attempt.
LoopRetry_CancelsBundle ==
    /\ pc = "ea_return"
    /\ ~fast_mode
    /\ result # "included"
    /\ attempt_number < MaxAttempts
    /\ attempt_number' = attempt_number + 1
    /\ estimated_wait' = (blocks_to_wait * BlockTime) \div 2
    /\ prev' = [ target |-> target_block, outcome |-> Outcome ]
    /\ pc' = "loop_head"
    /\ current_block' = NoValue /\ target_block' = NoValue /\ is_high_priority' = FALSE
    /\ base_fee' = NoValue /\ tx' = NoTx /\ sim' = NoSim /\ bundle_hash' = FALSE
    /\ attempt_error' = "none"
    /\ steps' = <<>> /\ calls' = IF bundle_hash THEN {"cancel_bundle"} ELSE NoCalls
    /\ tracker' = "IDLE" /\ cb_current_block' = NoValue
    /\ since_status' = SinceCap /\ waited' = FALSE /\ wait_event' = "none"
    /\ match' = NoMatch /\ resolved_by' = "none" /\ result' = "none"
    /\ last_reply' = NoReply /\ used' = {} /\ landed' = FALSE
    /\ call_parity' = 0
    /\ UNCHANGED << fast_mode, setup, head, chain_nonce, blocks_to_wait, exit_code >>
    /\ UNCHANGED pureVars
    /\ UNCHANGED genVars

\* continuous mode: count the failed attempt, sleep, go round the loop
LoopRetry ==
    /\ pc = "ea_return"
    /\ ~fast_mode
    /\ result # "included"
    /\ attempt_number < MaxAttempts
    /\ attempt_number' = attempt_number + 1
    /\ estimated_wait' = (blocks_to_wait * BlockTime) \div 2
    /\ prev' = [ target |-> target_block, outcome |-> Outcome ]
    /\ pc' = "loop_head"
    /\ ResetAttempt
    /\ call_parity' = 0
    /\ UNCHANGED << fast_mode, setup, head, chain_nonce, blocks_to_wait, exit_code >>
    /\ UNCHANGED pureVars
    /\ UNCHANGED genVars

Next ==
    \/ MainSetup
    \/ MainLoopHead
    \/ ChooseTarget
    \/ CheckUserStats
    \/ BuildAndSign
    \/ Simulate
    \/ Submit
    \/ InfoQueries
    \/ TrackStart
    \/ WaitStatusCheck
    \/ WaitSleep
    \/ FetchBlock
    \/ ScanTargetBlock
    \/ TxStatusFallback
    \/ FinalStatusCheck
    \/ FastModeReturn
    \/ LoopSuccess
    \/ LoopRetry

Spec == Init /\ [][Next]_vars

\* Every chain and relay call of check_bundle_status returns (with a result
\* or an exception) and asyncio.sleep ends, so the tracker keeps taking steps.
TrackerFairness ==
    /\ WF_vars(TrackStart)
    /\ WF_vars(WaitStatusCheck)
    /\ WF_vars(WaitSleep)
    /\ WF_vars(FetchBlock)
    /\ WF_vars(ScanTargetBlock)
    /\ WF_vars(TxStatusFallback)
    /\ WF_vars(FinalStatusCheck)

\* check_bundle_status on its own: it is entered where execute_attack calls
\* it, after the submission and the informational queries of a first attempt
\* whose chain reads saw the head at current_block and then `adv` blocks on.
TrackInit ==
    /\ pc = "cb_start"
    /\ fast_mode \in BOOLEAN
    /\ setup = "ok"
    /\ chain_nonce = 0
    /\ attempt_number = 1
    /\ estimated_wait = NoValue
    /\ exit_code = NoValue
    /\ \E cur \in StartHeads, adv \in 0 .. MaxAdvance :
        /\ current_block = cur
        /\ head = Min(cur + adv, MaxHead)
        /\ target_block = TargetFor(cur, fast_mode, TRUE, cur)
        /\ blocks_to_wait = IF fast_mode THEN NoValue
                            ELSE get_next_hundred_block(cur, cur) - cur
    /\ is_high_priority \in BOOLEAN
    /\ base_fee \in BaseFees
    /\ tx = prepare_attack_transaction(base_fee, chain_nonce, is_high_priority)
    /\ sim = [ done |-> TRUE, success |-> TRUE, bundleHash |-> TRUE ]
    /\ bundle_hash = TRUE
    /\ attempt_error = "none"
    /\ steps = << "target", "stats", "build", "simulate", "submit" >>
    /\ calls = {"user_stats", "simulate", "submit", "info_tx_status", "info_bundle_status"}
    /\ call_parity = IF fast_mode THEN 0 ELSE 1
    /\ used = {AttemptArgs(tx, target_block)}
    /\ last_reply = [ from |-> "submit", what |-> "bundle_hash" ]
    /\ tracker = "IDLE" /\ cb_current_block = NoValue
    /\ since_status = SinceCap /\ waited = FALSE /\ wait_event = "none"
    /\ match = NoMatch /\ resolved_by = "none" /\ result = "none"
    /\ landed = FALSE
    /\ prev = NoPrev
    /\ fn = "none" /\ fn_arg = NoValue /\ fn_ret = NoRet
    /\ gb_pc = "idle" /\ anvil = "not_started" /\ polls = 0
    /\ leaving = "none" /\ gb_exit = NoValue

TrackNext ==
    \/ TrackStart
    \/ WaitStatusCheck
    \/ WaitSleep
    \/ FetchBlock
    \/ ScanTargetBlock
    \/ TxStatusFallback
    \/ FinalStatusCheck

TrackSpec == TrackInit /\ [][TrackNext]_vars /\ TrackerFairness

\* ---------------------------------------- the functions applied on their own
\* The functions whose contracts are stated for every input are applied to
\* inputs drawn at the start, outside a run of main.
PureFns == {"simulate_bundle", "submit_bundle", "relay_operation",
            "check_flashbots_status", "get_next_hundred_block", "choose_target",
            "prepare_attack_transaction", "submit_request", "relay_request"}

\* timestamps: None, 0, and times before and after now + BundleLifetime
Timestamps == {NoValue, 0, 5, 2000}
Clock == {1000, 1001}

\* block numbers: the genesis block, both sides of a boundary, and 12,345
BlockNumbers == (0 .. MaxHead) \cup {199, 200, 12345}
\* the head a fallback read may return, whatever was passed
AnyHeads == {0, 99, 100, 12345}

PureInputs(f) ==
    CASE f = "simulate_bundle" -> SimResponses
      [] f = "submit_bundle"   -> SubmitResponses
      [] f = "relay_operation" -> [ op : RelayOps, failure : RelayFailures ]
      [] f = "check_flashbots_status" ->
            [ bundle_hash : {TRUE}, target_block : {NoValue, 0, 100}, reply : StatusReplies ]
      [] f = "get_next_hundred_block" ->
            [ current_block : BlockNumbers, fresh_head : AnyHeads ]
      [] f = "prepare_attack_transaction" ->
            [ base_fee : 0 .. MaxBaseFee, nonce : 0 .. MaxNonce, high_priority : BOOLEAN ]
      [] f = "submit_request" ->
            [ min_timestamp : Timestamps, max_timestamp : Timestamps, now : Clock ]
      [] f = "relay_request" ->
            { a \in [ op : RelayOps, t_build : Clock, t_send : Clock ] :
                  a.t_build <= a.t_send }
      [] f = "choose_target" ->
            \* execute_attack passes the head it has just read; a fallback
            \* read comes right after it
            { [ cur |-> c, fast |-> fm, target_hundred |-> th, fresh_head |-> c + adv ] :
                  c \in BlockNumbers, fm \in BOOLEAN, th \in BOOLEAN, adv \in 0 .. MaxAdvance }

PureInit ==
    /\ pc = "pure"
    /\ fast_mode = FALSE
    /\ setup = "ok"
    /\ head = 100
    /\ chain_nonce = 0
    /\ attempt_number = 1
    /\ blocks_to_wait = NoValue
    /\ estimated_wait = NoValue
    /\ exit_code = NoValue
    /\ call_parity = 0
    /\ prev = NoPrev
    /\ FreshAttempt
    /\ \E f \in PureFns : fn = f /\ fn_arg \in PureInputs(f)
    /\ fn_ret = NoRet
    /\ gb_pc = "idle" /\ anvil = "not_started" /\ polls = 0
    /\ leaving = "none" /\ gb_exit = NoValue

\* the function f is applied and returns value
Applied(f, value) ==
    /\ pc = "pure"
    /\ fn = f
    /\ ~fn_ret.done
    /\ fn_ret' = [ done |-> TRUE, value |-> value ]
    /\ UNCHANGED << pc, head, chain_nonce, steps, calls, call_parity, result, prev,
                    last_reply, used, fn, fn_arg >>
    /\ UNCHANGED genVars
    /\ UNCHANGED mainVars
    /\ UNCHANGED attackVars
    /\ UNCHANGED trackerVars

ApplySimulateBundle == Applied("simulate_bundle", simulate_bundle(fn_arg))

ApplySubmitBundle == Applied("submit_bundle", submit_bundle(fn_arg))

ApplyRelayOperation ==
    Applied("relay_operation", relay_operation(fn_arg.op, fn_arg.failure))

ApplyCheckFlashbotsStatus ==
    Applied("check_flashbots_status",
            check_flashbots_status(fn_arg.bundle_hash, fn_arg.target_block, fn_arg.reply))

ApplyGetNextHundredBlock ==
    Applied("get_next_hundred_block",
            get_next_hundred_block(fn_arg.current_block, fn_arg.fresh_head))

ApplyTargetFor ==
    Applied("choose_target",
            TargetFor(fn_arg.cur, fn_arg.fast, fn_arg.target_hundred, fn_arg.fresh_head))

ApplyPrepareAttackTransaction ==
    Applied("prepare_attack_transaction",
            prepare_attack_transaction(fn_arg.base_fee, fn_arg.nonce, fn_arg.high_priority))

ApplySubmitRequest ==
    Applied("submit_request",
            submit_request(fn_arg.min_timestamp, fn_arg.max_timestamp, fn_arg.now))

ApplyRelayRequest ==
    Applied("relay_request", relay_request(fn_arg.op, fn_arg.t_build, fn_arg.t_send))

PureNext ==
    \/ ApplyPrepareAttackTransaction
    \/ ApplySubmitRequest
    \/ ApplyRelayRequest
    \/ ApplySimulateBundle
    \/ ApplySubmitBundle
    \/ ApplyRelayOperation
    \/ ApplyCheckFlashbotsStatus
    \/ ApplyGetNextHundredBlock
    \/ ApplyTargetFor

PureSpec == PureInit /\ [][PureNext]_vars

\* ------------------------------------------------ generate_block.py, main
\* get_block_data: max_attempts
max_attempts == 30

\* how a step inside main's try block ends: it returns, it calls
\* sys.exit(1), or it raises an exception
StepOutcomes == {"ok", "exit", "raise"}

GenInit ==
    /\ pc = "generate_block"
    /\ fast_mode = FALSE
    /\ setup = "ok"
    /\ head = 100
    /\ chain_nonce = 0
    /\ attempt_number = 1
    /\ blocks_to_wait = NoValue
    /\ estimated_wait = NoValue
    /\ exit_code = NoValue
    /\ call_parity = 0
    /\ prev = NoPrev
    /\ FreshAttempt
    /\ fn = "none" /\ fn_arg = NoValue /\ fn_ret = NoRet
    /\ gb_pc = "start" /\ anvil = "not_started" /\ polls = 0
    /\ leaving = "none" /\ gb_exit = NoValue

\* run_attack.py is not running
GenFrame ==
    /\ UNCHANGED << pc, head, chain_nonce, steps, calls, call_parity, result, prev,
                    last_reply, used >>
    /\ UNCHANGED mainVars
    /\ UNCHANGED attackVars
    /\ UNCHANGED trackerVars
    /\ UNCHANGED pureVars

\* Mutant of TryExit: the cleanup follows the try statement instead of being
\* its `finally` clause, so only a normal completion reaches it.
TryExit_NoFinally(how) == IF how = "return" THEN "finally" ELSE "ended"

\* main: where control goes when the try statement is left by a return, by
\* a sys.exit(1) of the try block or by the one of the exception handler
TryExit(how) == "finally"

\* a step of the try block that returns, exits or raises
TryStep(at, next, outcomes) ==
    /\ gb_pc = at
    /\ \E out \in outcomes :
        CASE out = "ok"    -> gb_pc' = next /\ leaving' = leaving
          [] out = "exit"  -> gb_pc' = TryExit("system_exit") /\ leaving' = "system_exit"
          [] out = "raise" -> gb_pc' = "except" /\ leaving' = leaving
    /\ UNCHANGED << anvil, polls, gb_exit >>
    /\ GenFrame

\* main: start_anvil, called before the try statement
StartAnvil ==
    /\ gb_pc = "start"
    /\ \E started \in BOOLEAN :
        IF started
        THEN anvil' = "running" /\ gb_pc' = "connect" /\ gb_exit' = gb_exit
        ELSE anvil' = anvil /\ gb_pc' = "ended" /\ gb_exit' = 1
    /\ UNCHANGED << polls, leaving >>
    /\ GenFrame

\* main: the connection check
VerifyConnection == TryStep("connect", "deploy", StepOutcomes)

\* main: deploy_contract
DeployContract == TryStep("deploy", "send", StepOutcomes)

\* main: execute_attack_tx
ExecuteAttackTx == TryStep("send", "poll", StepOutcomes)

\* get_block_data: one round of the wait for the receipt, or the exit after
\* the last round
PollReceipt ==
    /\ gb_pc = "poll"
    /\ IF polls < max_attempts
       THEN /\ polls' = polls + 1
            /\ \E mined \in BOOLEAN : gb_pc' = IF mined THEN "blocks" ELSE "poll"
            /\ leaving' = leaving
       ELSE /\ polls' = polls
            /\ gb_pc' = TryExit("system_exit")
            /\ leaving' = "system_exit"
    /\ UNCHANGED << anvil, gb_exit >>
    /\ GenFrame

\* get_block_data: collect the blocks from the fork to the attack block; it
\* has no sys.exit of its own
CollectBlocks == TryStep("blocks", "save", {"ok", "raise"})

\* main: save_block_data, then the end of the try block
SaveBlockData ==
    /\ gb_pc = "save"
    /\ \E out \in StepOutcomes :
        CASE out = "ok"    -> gb_pc' = TryExit("return") /\ leaving' = "return"
          [] out = "exit"  -> gb_pc' = TryExit("system_exit") /\ leaving' = "system_exit"
          [] out = "raise" -> gb_pc' = "except" /\ leaving' = leaving
    /\ UNCHANGED << anvil, polls, gb_exit >>
    /\ GenFrame

\* main: `except Exception`, which prints the error and calls sys.exit(1)
ExceptHandler ==
    /\ gb_pc = "except"
    /\ gb_pc' = TryExit("exception")
    /\ leaving' = "exception"
    /\ UNCHANGED << anvil, polls, gb_exit >>
    /\ GenFrame

\* main: `finally`: terminate Anvil and wait up to 5 seconds for it
TerminateAnvil ==
    /\ gb_pc = "finally"
    /\ anvil' = "terminated"
    /\ \E in_time \in BOOLEAN :
        gb_exit' = IF in_time /\ leaving = "return" THEN 0 ELSE 1
    /\ gb_pc' = "ended"
    /\ UNCHANGED << polls, leaving >>
    /\ GenFrame

GenNext ==
    \/ StartAnvil
    \/ VerifyConnection
    \/ DeployContract
    \/ ExecuteAttackTx
    \/ PollReceipt
    \/ CollectBlocks
    \/ SaveBlockData
    \/ ExceptHandler
    \/ TerminateAnvil

GenSpec == GenInit /\ [][GenNext]_vars

\* ------------------------------------------------------------ properties

\* C1: the tracker reports included only when a receipt with success status
\* was observed for the matching transaction; a matching transaction that is
\* present in the target block but reverted gives not-included, whether it
\* matched by hash or by sender.
C1_IncludedOnlyOnSuccessReceipt ==
    /\ (tracker = "RESOLVED" /\ result = "included") =>
          \/ resolved_by = "tx_status"
          \/ resolved_by = "scan" /\ match.receipt_seen /\ match.status = 1
    /\ (tracker = "RESOLVED" /\ match.found /\ match.status = 0) => result # "included"

C3_FailedSubmitEndsAttempt ==
    ("submit" \in calls /\ ~bundle_hash) =>
        /\ pc \in {"ea_return", "done"}
        /\ result = "not_included"
        /\ Len(SelectSeq(steps, LAMBDA x : x = "submit")) = 1
        /\ "info_tx_status" \notin calls /\ "info_bundle_status" \notin calls
        /\ "wait_bundle_status" \notin calls /\ "tx_lookup" \notin calls
        /\ "final_bundle_status" \notin calls /\ "get_block" \notin calls
        /\ tracker = "IDLE"

C3_Witness ==
    /\ pc = "ea_return" /\ "submit" \in calls /\ ~bundle_hash /\ sim.success

\* C4: the steps of an attempt are taken in the order target, stats, build,
\* simulate, submit, track, each at most once; tracking has started only
\* after a submit that returned a bundle hash.
StepOrder == << "target", "stats", "build", "simulate", "submit", "track" >>

C4_StepsInOrder ==
    /\ \E n \in 0..Len(StepOrder) : steps = SubSeq(StepOrder, 1, n)
    /\ tracker # "IDLE" => (bundle_hash /\ "submit" \in calls /\ "simulate" \in calls)
    /\ "submit" \in calls => sim.done

C4_Witness == steps = StepOrder /\ tracker = "RESOLVED"

\* C5 as stated: no fourth attempt is started.
C5_AtMostThreeAttempts == attempt_number <= 3

\* C5 as amended: fast mode makes exactly one attempt and a failed one ends
\* the run with exit code 1; continuous mode has no attempt bound, a fourth
\* attempt follows three failed ones, and the run never ends in failure
\* because attempts ran out (only a failed setup or an exception escaping
\* main's loop ends it with a non-zero exit).
C5_NoAttemptBoundInContinuousMode ==
    /\ fast_mode => attempt_number = 1
    /\ (fast_mode /\ pc = "done" /\ setup = "ok") =>
          (exit_code = IF result = "included" THEN 0 ELSE 1)
    /\ (~fast_mode /\ exit_code = 1) => (setup # "ok" \/ pc = "crashed")

C5_Witness == ~fast_mode /\ attempt_number = 4 /\ pc = "ea_stats"

\* C6 as stated: after a not-included attempt the next target is the
\* previous target plus one.
C6_NextTargetIsPreviousPlusOne ==
    (prev.outcome = "not_included" /\ target_block # NoValue) =>
        target_block = prev.target + 1

\* C6 as amended: after a not-included attempt the next attempt targets the
\* next hundred-boundary block after the head it reads at its start, which
\* is at least a hundred blocks past the previous target, and it builds its
\* transaction from the nonce and the base fee read in that attempt.
C6_NextTargetIsNextHundred ==
    /\ (prev.outcome = "not_included" /\ target_block # NoValue) =>
          /\ target_block = current_block + (Hundred - (current_block % Hundred))
          /\ target_block >= prev.target + Hundred
    /\ tx # NoTx =>
          /\ tx.nonce = chain_nonce
          /\ tx.maxFeePerGas = base_fee + (IF is_high_priority THEN 10 ELSE 20)

C6_Witness ==
    /\ prev.outcome = "not_included" /\ prev.target = 100 /\ target_block = 200
    /\ tx # NoTx /\ tx.nonce = 1 /\ attempt_number = 2

\* C7: in continuous mode the loop is left only when an attempt reported
\* inclusion, and the run then ends with exit code 0.
C7_LoopLeftOnlyOnInclusion ==
    (~fast_mode /\ setup = "ok" /\ pc \in {"done", "crashed"}) =>
        (result = "included" /\ exit_code = 0)

\* C8: within an attempt the tracker's phase only moves forward in the order
\* WAITING_FOR_BLOCK, BLOCK_REACHED, CHECKING_BLOCK_CONTENTS,
\* CHECKING_STATUS_API, RESOLVED; the target block is fetched only after a
\* head reading at or past the target; and a first reading at or past the
\* target skips the waiting phase.
PhaseRank(phase) ==
    CASE phase = "IDLE"                    -> 0
      [] phase = "WAITING_FOR_BLOCK"       -> 1
      [] phase = "BLOCK_REACHED"           -> 2
      [] phase = "CHECKING_BLOCK_CONTENTS" -> 3
      [] phase = "CHECKING_STATUS_API"     -> 4
      [] phase = "RESOLVED"                -> 5

C8_PhaseStep ==
    /\ attempt_number' = attempt_number => PhaseRank(tracker') >= PhaseRank(tracker)
    /\ (pc = "cb_start" /\ cb_current_block' # NoValue /\ cb_current_block' >= target_block)
          => (tracker' = "BLOCK_REACHED" /\ ~waited')
    /\ ("get_block" \in calls' /\ "get_block" \notin calls) =>
          (tracker = "BLOCK_REACHED" /\ cb_current_block >= target_block)
    /\ tracker' \in {"BLOCK_REACHED", "CHECKING_BLOCK_CONTENTS", "CHECKING_STATUS_API"}
          => cb_current_block' >= target_block'
    /\ tracker' = "WAITING_FOR_BLOCK" => (waited' /\ cb_current_block' < target_block')

C8_PhasesOnlyForward == [][C8_PhaseStep]_vars

C8_Witness ==
    /\ tracker = "RESOLVED" /\ resolved_by = "final" /\ waited
    /\ "wait_bundle_status" \in calls

\* C9: a resolved tracker makes no further transition and no further chain
\* or relay call in that attempt; an attempt resolved by the block scan has
\* made neither the transaction-status lookup nor the final status check.
C9_ResolvedStep ==
    (tracker = "RESOLVED" /\ attempt_number' = attempt_number) =>
        /\ tracker' = "RESOLVED"
        /\ UNCHANGED << calls, call_parity, head, result, resolved_by, match >>

C9_ScanResolvedStep ==
    resolved_by' = "scan" => ("tx_lookup" \notin calls' /\ "final_bundle_status" \notin calls')

C9_NothingAfterResolution == [][C9_ResolvedStep /\ C9_ScanResolvedStep]_vars

C9_Witness ==
    /\ pc = "done" /\ resolved_by = "scan" /\ result = "not_included" /\ match.by = "sender"

\* C10: a failing head read or a failing or malformed relay status response
\* during the waiting loop does not abort the attempt; the attempt is still
\* resolved by the scan of the target block.
C10_WaitErrorsDoNotAbort ==
    (tracker = "RESOLVED" /\ wait_event # "none") =>
        ("get_block" \in calls /\ resolved_by # "exception")

\* C11: when neither the block scan nor the transaction-status lookup found
\* the transaction, the attempt is resolved as not-included whatever the
\* final relay status check answers (seals reported, no seals, or an error
\* result): never included, and not through an exception.
C11_FinalCheckNeverIncludes ==
    /\ resolved_by = "final" =>
          /\ last_reply.from = "final_status"
          /\ last_reply.what \in {"sealed_not_in_block", "not_sealed", "no_result"}
          /\ result = "not_included"
          /\ tracker = "RESOLVED"
    /\ last_reply.from = "final_status" =>
          /\ resolved_by = "final"
          /\ ~match.found /\ "tx_lookup" \in calls
          /\ pc \in {"ea_return", "done"}

C11_Witness ==
    /\ pc = "ea_return" /\ resolved_by = "final"
    /\ last_reply = [ from |-> "final_status", what |-> "sealed_not_in_block" ]
    /\ result = "not_included"

\* C12: the transaction-status lookup is made only after the block scan
\* found no matching transaction; the tracker resolves included exactly when
\* the lookup reports INCLUDED, and goes on to the final relay status check
\* for FAILED, PENDING, NOT_FOUND and ERROR.
C12_LookupDecides ==
    /\ "tx_lookup" \in calls =>
          ("get_block" \in calls /\ ~match.found /\ resolved_by # "scan")
    /\ "final_bundle_status" \in calls => "tx_lookup" \in calls
    /\ last_reply.from = "tx_lookup" =>
          IF last_reply.what = "INCLUDED"
          THEN tracker = "RESOLVED" /\ resolved_by = "tx_status" /\ result = "included"
          ELSE pc = "cb_final" /\ tracker = "CHECKING_STATUS_API" /\ result = "none"
    /\ resolved_by = "tx_status" =>
          (last_reply = [ from |-> "tx_lookup", what |-> "INCLUDED" ] /\ result = "included")
    /\ pc = "cb_final" =>
          (last_reply.from = "tx_lookup"
           /\ last_reply.what \in {"FAILED", "PENDING", "NOT_FOUND", "ERROR"})

C12_Witness ==
    /\ pc = "cb_final" /\ last_reply = [ from |-> "tx_lookup", what |-> "FAILED" ]
    /\ "get_block" \in calls

\* C13: simulate_bundle reports success only for a 200 reply that parses
\* and in which no per-transaction result carries an error or a revert; one
\* failing result among any number of clean ones makes success false.
C13_SuccessMeansAllClean ==
    (fn = "simulate_bundle" /\ fn_ret.done) =>
        LET failing == { i \in 1 .. Len(fn_arg.results) :
                           fn_arg.results[i].error # "none" \/ fn_arg.results[i].revert }
        IN  /\ fn_ret.value.success =>
                  (fn_arg.kind \notin {"non_200", "unparsable"} /\ failing = {})
            /\ failing # {} => ~fn_ret.value.success

C13_Witness ==
    /\ fn = "simulate_bundle" /\ fn_ret.done /\ fn_arg.kind = "result"
    /\ Len(fn_arg.results) = 2
    /\ fn_arg.results[1] = [ error |-> "none", revert |-> FALSE ]
    /\ fn_arg.results[2].revert
    /\ ~fn_ret.value.success

\* C14: a simulation reply with status 200 and no per-transaction results
\* (a JSON-RPC error object, or a result without results) makes the attempt
\* fail; no bundle is submitted after it.
C14_EmptySimulationReplyFailsAttempt ==
    [][ (last_reply.from = "simulate" /\ last_reply.what \in {"error_object", "no_results"})
            => ("submit" \notin calls' /\ pc = "ea_return" /\ result = "not_included") ]_vars

\* C15: each of the four relay operations fails softly: a transport
\* failure, a status other than 200, an unparsable body or an internal
\* exception gives the error result (None for submit_bundle), and no
\* exception leaves the operation.
C15_RelayOperationsFailSoftly ==
    /\ (fn = "relay_operation" /\ fn_ret.done) =>
          /\ ~fn_ret.value.raised
          /\ fn_ret.value.value = IF fn_arg.op = "submit_bundle" THEN "None"
                                  ELSE "success_false_with_error"
    /\ (fn = "simulate_bundle" /\ fn_ret.done /\ fn_arg.kind \in {"non_200", "unparsable"}) =>
          (~fn_ret.value.success /\ ~fn_ret.value.has_raw)
    /\ (fn = "submit_bundle" /\ fn_ret.done
          /\ fn_arg \in {"non_200", "unparsable", "null_result"}) => ~fn_ret.value
    /\ (fn = "check_flashbots_status" /\ fn_ret.done
          /\ fn_arg.reply \in {"non_200", "unparsable"}) => fn_ret.value.result = "error"

C15_Witness ==
    /\ fn = "relay_operation" /\ fn_ret.done
    /\ fn_arg = [ op |-> "check_user_stats", failure |-> "transport_failure" ]
    /\ fn_ret.value = [ raised |-> FALSE, value |-> "success_false_with_error" ]

\* C16: submit_bundle returns the bundle identifier exactly when the relay
\* answered 200 with a result holding a non-empty bundleHash, None otherwise.
C16_BundleHashIffReturned ==
    (fn = "submit_bundle" /\ fn_ret.done) => (fn_ret.value <=> (fn_arg = "bundle_hash"))

C16_Witness ==
    fn = "submit_bundle" /\ fn_ret.done /\ fn_arg = "bundle_hash" /\ fn_ret.value

\* C17: check_flashbots_status without a target block returns an error
\* result and sends nothing; a request that is sent carries the bundle hash
\* and the target block number.
C17_StatusRequestNeedsTargetBlock ==
    (fn = "check_flashbots_status" /\ fn_ret.done) =>
        /\ fn_arg.target_block = NoValue =>
              (~fn_ret.value.sent /\ fn_ret.value.result = "error")
        /\ fn_ret.value.sent =>
              /\ fn_arg.target_block # NoValue
              /\ fn_ret.value.params.bundleHash = fn_arg.bundle_hash
              /\ fn_ret.value.params.blockNumber = fn_arg.target_block

C17_Witness ==
    /\ fn = "check_flashbots_status" /\ fn_ret.done
    /\ fn_arg.target_block = NoValue /\ fn_arg.reply = "sealed"
    /\ ~fn_ret.value.sent

\* C18: for every block number c, 0 and the multiples of 100 included,
\* get_next_hundred_block(c) is a multiple of 100 greater than c.
C18_NextHundredIsLaterBoundary ==
    (fn = "get_next_hundred_block" /\ fn_ret.done) =>
        (fn_ret.value > fn_arg.current_block /\ fn_ret.value % Hundred = 0)

C18_Witness ==
    /\ fn = "get_next_hundred_block" /\ fn_ret.done
    /\ fn_arg.current_block = 100 /\ fn_ret.value = 200

\* C19: for every block number c passed to it, get_next_hundred_block
\* returns exactly c + (100 - (c mod 100)); the result depends only on c.
C19_NextHundredDependsOnlyOnArgument ==
    (fn = "get_next_hundred_block" /\ fn_ret.done) =>
        fn_ret.value = fn_arg.current_block + (Hundred - (fn_arg.current_block % Hundred))

\* C20: from the head c it reads, execute_attack targets c + 2 in fast mode
\* whatever the hundred-boundary flag, c + 1 under the next policy, and the
\* next hundred boundary after c otherwise; the target is always past c.
C20_TargetFollowsPolicy ==
    (fn = "choose_target" /\ fn_ret.done) =>
        LET c == fn_arg.cur
            t == fn_ret.value
        IN  /\ fn_arg.fast => t = c + 2
            /\ (~fn_arg.fast /\ ~fn_arg.target_hundred) => t = c + 1
            /\ (~fn_arg.fast /\ fn_arg.target_hundred) =>
                  (t % 100 = 0 /\ t - c >= 1 /\ t - c <= 100)
            /\ t > c

C20_Witness ==
    /\ fn = "choose_target" /\ fn_ret.done
    /\ fn_arg.fast /\ fn_arg.target_hundred /\ fn_arg.cur = 99 /\ fn_ret.value = 101

\* C21: for every base fee the built transaction has a priority fee of
\* 5 gwei and a fee cap of base fee + 10 gwei when the priority flag is
\* true, and 15 gwei and base fee + 20 gwei when it is false.
C21_FeesFollowPriorityFlag ==
    (fn = "prepare_attack_transaction" /\ fn_ret.done) =>
        LET premium == fn_ret.value.maxFeePerGas - fn_arg.base_fee
            tip     == fn_ret.value.maxPriorityFeePerGas
        IN  /\ fn_arg.high_priority => (tip = 5 /\ premium = 10)
            /\ ~fn_arg.high_priority => (tip = 15 /\ premium = 20)

C21_Witness ==
    /\ fn = "prepare_attack_transaction" /\ fn_ret.done
    /\ fn_arg.base_fee = 30 /\ ~fn_arg.high_priority
    /\ fn_ret.value.maxPriorityFeePerGas = 15 /\ fn_ret.value.maxFeePerGas = 50

\* C22: every transaction the builder returns has a fee cap that is at
\* least its priority fee, in both priority branches, for every
\* non-negative base fee.
C22_FeeCapCoversPriorityFee ==
    (fn = "prepare_attack_transaction" /\ fn_ret.done) =>
        fn_ret.value.maxFeePerGas >= fn_ret.value.maxPriorityFeePerGas

C22_Witness ==
    /\ fn = "prepare_attack_transaction" /\ fn_ret.done
    /\ fn_arg.base_fee = 0 /\ ~fn_arg.high_priority
    /\ fn_ret.value.maxFeePerGas = 20 /\ fn_ret.value.maxPriorityFeePerGas = 15

\* C23: the transaction of an attempt carries the account's on-chain
\* transaction count as read in that attempt's build step; before the build
\* step of an attempt there is no transaction, so none is carried over.
C23_NonceReadAtBuild ==
    /\ tx # NoTx =>
          (tx.nonce = chain_nonce /\ Len(steps) >= 3 /\ steps[3] = "build")
    /\ pc \in {"main", "loop_head", "ea_start", "ea_stats", "ea_build"} => tx = NoTx

C23_Witness ==
    /\ attempt_number = 3 /\ pc = "ea_simulate" /\ tx.nonce = 1 /\ chain_nonce = 1

\* C24: a new attempt is started only after the previous one has returned
\* its outcome, and then nothing of the previous attempt is still live.
InAttempt ==
    pc \in {"ea_start", "ea_stats", "ea_build", "ea_simulate", "ea_submit", "ea_info",
            "cb_start", "cb_wait", "cb_sleep", "cb_fetch", "cb_scan", "cb_txstatus",
            "cb_final"}

C24_Step ==
    /\ attempt_number' # attempt_number =>
          /\ pc = "ea_return" /\ result \in {"included", "not_included"}
          /\ attempt_number' = attempt_number + 1
    /\ (pc' = "ea_start" /\ pc # "ea_start") =>
          (pc \in {"main", "loop_head"} /\ result = "none" /\ tracker = "IDLE"
           /\ steps = <<>> /\ calls = NoCalls)
    /\ (InAttempt /\ ~InAttempt') => (pc' = "ea_return" /\ result' # "none")
    /\ InAttempt => result = "none"

C24_AttemptsDoNotOverlap == [][C24_Step]_vars

C24_Witness ==
    /\ attempt_number = 2 /\ pc = "cb_wait" /\ result = "none"

\* C25: a signing error ends the run at once with a failure; it is never
\* followed by another attempt.
C25_SigningErrorEndsRun ==
    [][ attempt_error = "signing_error" =>
            (attempt_number' = attempt_number /\ pc' \in {"ea_return", "done"}) ]_vars

\* C26: main returns 0 exactly when an attempt reported inclusion; it
\* returns 1 when the single attempt of fast mode failed and when the setup
\* failed.
C26_ExitCodeReflectsInclusion ==
    /\ pc = "done" =>
          /\ exit_code \in {0, 1}
          /\ exit_code = 0 <=> result = "included"
          /\ setup # "ok" => (exit_code = 1 /\ steps = <<>>)
    /\ exit_code = 0 => (pc = "done" /\ result = "included" /\ setup = "ok")
    /\ pc \notin {"done", "crashed"} => exit_code = NoValue

C26_Witness ==
    /\ pc = "done" /\ exit_code = 0 /\ ~fast_mode /\ attempt_number = 2

\* C27: the wait after a failed attempt is half the number of blocks from
\* the chain head to the next hundred boundary, times 12 seconds, with the
\* head as it is when the wait is scheduled.
C27_WaitFromHeadAtScheduling ==
    estimated_wait # NoValue =>
        estimated_wait = ((get_next_hundred_block(head, head) - head) * BlockTime) \div 2

\* C28: the eth_sendBundle params carry the caller's maxTimestamp when one
\* is given and the submission time plus 420 seconds otherwise, and the
\* caller's minTimestamp or 0.
C28_TimestampsFromCaller ==
    (fn = "submit_request" /\ fn_ret.done) =>
        /\ fn_ret.value.maxTimestamp =
              IF fn_arg.max_timestamp = NoValue THEN fn_arg.now + 420
              ELSE fn_arg.max_timestamp
        /\ fn_ret.value.minTimestamp =
              IF fn_arg.min_timestamp = NoValue THEN 0 ELSE fn_arg.min_timestamp

\* C29: every request to the relay uses one of the four methods; no cancel
\* or replace request is sent, and nothing is sent for a finished attempt's
\* bundle before the next attempt starts.
C29_NoCancelRequest ==
    /\ calls \subseteq CallKinds
    /\ \A k \in calls \cap RelayCallKinds : RelayMethod(CallOp(k)) \in RelayMethods
    /\ pc \in {"loop_head", "ea_start"} => calls = NoCalls

C29_Witness ==
    /\ attempt_number = 2 /\ "submit" \in calls /\ bundle_hash /\ pc = "ea_info"

\* C30: the X-Flashbots-Signature header is address:signature with the
\* account's address, and the signature is over exactly the body that is
\* POSTed with it.
C30_SignatureOverPostedBody ==
    (fn = "relay_request" /\ fn_ret.done) =>
        /\ fn_ret.value.signature.address = "account"
        /\ fn_ret.value.signature.over = fn_ret.value.data
        /\ fn_ret.value.data.method = RelayMethod(fn_arg.op)

C30_Witness ==
    /\ fn = "relay_request" /\ fn_ret.done
    /\ fn_arg = [ op |-> "submit_bundle", t_build |-> 1000, t_send |-> 1001 ]
    /\ fn_ret.value.data = [ method |-> "eth_sendBundle", id |-> 1000 ]

\* C40: once the Anvil process has been started, the program ends only
\* after terminate() has been called on it, however main's try block was
\* left: by completing, by an exception, or by sys.exit(1).
C40_AnvilTerminatedOnEveryPath ==
    /\ gb_pc = "ended" => anvil # "running"
    /\ (gb_pc = "ended" /\ anvil = "not_started") => (leaving = "none" /\ gb_exit = 1)
    /\ (gb_pc = "ended" /\ gb_exit = 0) => (anvil = "terminated" /\ leaving = "return")

C40_Witness ==
    /\ gb_pc = "ended" /\ anvil = "terminated"
    /\ leaving = "system_exit" /\ polls = max_attempts

\* C32: check_bundle_status returns true only if the attack transaction
\* itself is in the target block.
C32_IncludedOnlyForAttackTxInTarget ==
    (tracker = "RESOLVED" /\ result = "included") => landed

\* C32, amended: check_bundle_status returns true only if the target block
\* holds the attack transaction, or holds a transaction whose receipt names
\* the account as sender with status 1, or the lookup by the transaction
\* hash reports INCLUDED.
C32_IncludedByHashSenderOrLookup ==
    (tracker = "RESOLVED" /\ result = "included") =>
        \/ resolved_by = "scan" /\ match.by = "hash" /\ landed
        \/ resolved_by = "scan" /\ match.by = "sender" /\ match.status = 1
        \/ /\ resolved_by = "tx_status" /\ ~match.found /\ ~landed
           /\ last_reply = [ from |-> "tx_lookup", what |-> "INCLUDED" ]

C32_Witness ==
    /\ tracker = "RESOLVED" /\ result = "included"
    /\ match.by = "sender" /\ match.status = 1 /\ ~landed

\* C33: for every bundle submitted, the target block is produced, at 12
\* seconds a block, no later than the bundle's maxTimestamp (submission
\* time + 420 seconds).
C33_WindowCoversTargetBlock ==
    (pc = "ea_info" /\ bundle_hash) =>
        (target_block - head) * BlockTime <= submit_request(NoValue, NoValue, 0).maxTimestamp

\* C34: no new attempt is started after an attempt whose transaction was
\* included in its target block.
C34_NoAttemptAfterInclusion ==
    [][ landed => attempt_number' = attempt_number ]_vars

\* C35: whatever the informational queries after the submit return, the
\* attempt goes on to inclusion tracking and returns the tracker's result.
C35_InfoQueriesDoNotChangeAttempt ==
    (pc = "ea_return" /\ bundle_hash) =>
        (tracker = "RESOLVED" /\ Len(steps) = 6 /\ steps[6] = "track")

\* C36: when the user-stats query fails or has no result the attempt goes
\* on with the priority flag false and the 15 gwei / base fee + 20 gwei
\* policy; the 5 gwei / base fee + 10 gwei policy is used only when the
\* relay reported isHighPriority true.
C36_StatsFailureMeansStandardFees ==
    last_reply.from = "user_stats" =>
        /\ is_high_priority <=> last_reply.what = "high"
        /\ \/ pc \in {"ea_build", "ea_simulate"}
           \/ pc \in {"ea_return", "done"} /\ attempt_error # "none" /\ tx = NoTx
        /\ tx # NoTx =>
              IF last_reply.what = "high"
              THEN tx.maxPriorityFeePerGas = 5 /\ tx.maxFeePerGas = base_fee + 10
              ELSE tx.maxPriorityFeePerGas = 15 /\ tx.maxFeePerGas = base_fee + 20

C36_Witness ==
    /\ last_reply = [ from |-> "user_stats", what |-> "error" ]
    /\ pc = "ea_simulate" /\ tx.maxPriorityFeePerGas = 15 /\ tx.maxFeePerGas = 50

\* C37: within an attempt the transaction is built and signed once, and the
\* simulation, the submission, the status queries and the tracking are all
\* given that transaction and the same target block.
C37_OneTransactionPerAttempt ==
    /\ used \subseteq { [ tx |-> tx, target_block |-> target_block ] }
    /\ tx # NoTx => Cardinality({ i \in DOMAIN steps : steps[i] = "build" }) = 1
    /\ "simulate" \in calls => (used # {} /\ tx # NoTx /\ target_block # NoValue)

C37_Witness ==
    /\ pc = "ea_return" /\ resolved_by = "final" /\ Cardinality(used) = 1
    /\ {"simulate", "submit", "info_bundle_status", "wait_bundle_status",
         "tx_lookup", "final_bundle_status"} \subseteq calls

\* C38: in the waiting loop the relay status is queried on the first
\* iteration and afterwards in exactly the iterations where more than 15
\* seconds have passed since the previous query; the head is read again
\* after each 5-second sleep.
C38_Step ==
    /\ pc = "cb_wait" => ((call_parity' # call_parity) <=> (since_status > StatusInterval))
    /\ (pc = "cb_wait" /\ call_parity' # call_parity /\ pc' = "cb_sleep") => since_status' = 0
    /\ (pc = "cb_start" /\ pc' = "cb_wait") => since_status' > StatusInterval
    /\ (pc = "cb_sleep" /\ pc' = "cb_wait") =>
          /\ since_status' >= Min(since_status + PollInterval, StatusInterval + 1)
          /\ cb_current_block' = head'

C38_StatusEveryFifteenSeconds == [][C38_Step]_vars

C38_Witness ==
    /\ pc = "cb_wait" /\ since_status = 10 /\ "wait_bundle_status" \in calls

\* C39: once a chain read of the tracker has returned a head at or past the
\* target block, check_bundle_status eventually returns.
Tracking ==
    pc \in {"cb_start", "cb_wait", "cb_sleep", "cb_fetch", "cb_scan", "cb_txstatus",
            "cb_final"}

C39_TrackerResolves ==
    (Tracking /\ head >= target_block) ~> (tracker = "RESOLVED")

C39_Witness ==
    /\ tracker = "RESOLVED" /\ waited /\ resolved_by = "final" /\ head >= target_block

====
